---------------------------- MODULE Spec2Model ----------------------------
(***************************************************************************)
(* Model of GPUIndicators (src/src/lib/gpu-accelerated-indicators.py):     *)
(* the batched RSI, Bollinger, MACD and EMA kernels over a price matrix    *)
(* (rows = symbols, columns = time) and the device memory pools.           *)
(*                                                                         *)
(* Numbers.  Array cells are exact fractions <<n, d>> in lowest terms with *)
(* d >= 0.  The three IEEE specials are the fractions with d = 0:          *)
(* <<1,0>> = +inf, <<-1,0>> = -inf and <<0,0>> = nan, so that nan and inf  *)
(* propagate through +, -, * and / as they do on the device.  Rounding to  *)
(* single precision is not modelled.                                       *)
(*                                                                         *)
(* RSI cells depend on the literal 1e-10 of line 58.  They are kept as     *)
(* <<a, b, c, d>> = (a + b*e) / (c + d*e) with e = 1e-10 symbolic; every   *)
(* operation lines 58-59 and 67-68 apply keeps this form.                  *)
(*                                                                         *)
(* Bollinger cells are <<m, k, v>> = m + k * sqrt(v), m, k, v fractions.   *)
(***************************************************************************)
EXTENDS Integers, Sequences, FiniteSets, TLC

\* ------------------------------------------------------------- bounds
\* Longest price history (columns) and largest period of a call.
MaxLen == 3
MaxPeriod == 2

\* Batch sizes, prices and band multipliers the caller draws from.
RowCounts == {1, 2}
Prices == {1, 2}
Multipliers == {1, 2}
Periods == 1..MaxPeriod
\* <<fast_period, slow_period, signal_period>> of the MACD calls
MacdPeriods == {<<1, 2, 1>>, <<2, 3, 2>>, <<3, 1, 3>>}

Shapes == RowCounts \X (1..MaxLen)
Matrices == UNION {[1..sh[1] -> [1..sh[2] -> Prices]] : sh \in Shapes}

\* ---------------------------------------------------------- fractions
Abs(x) == IF x < 0 THEN -x ELSE x
Min(a, b) == IF a < b THEN a ELSE b
Max(a, b) == IF a > b THEN a ELSE b
Sign(x) == IF x > 0 THEN 1 ELSE IF x < 0 THEN -1 ELSE 0

RECURSIVE GCD(_, _)
GCD(a, b) == IF b = 0 THEN a ELSE GCD(b, a % b)

\* n / d in lowest terms; d = 0 gives inf, -inf or nan.
Rat(n, d) ==
    IF d = 0 THEN <<Sign(n), 0>>
    ELSE LET g == GCD(Abs(n), Abs(d))
             s == Sign(d)
         IN  <<s * (Abs(n) \div g) * Sign(n), Abs(d) \div g>>

NaN == <<0, 0>>
Zero == <<0, 1>>
One == <<1, 1>>
FromInt(k) == <<k, 1>>

RAdd(x, y) ==
    IF x[2] = 0 /\ y[2] = 0
    THEN (IF x[1] = y[1] THEN x ELSE NaN)
    ELSE Rat(x[1] * y[2] + y[1] * x[2], x[2] * y[2])
RNeg(x) == <<-x[1], x[2]>>
RSub(x, y) == RAdd(x, RNeg(y))
RMul(x, y) == Rat(x[1] * y[1], x[2] * y[2])
RDiv(x, y) ==
    IF y[2] = 0 THEN (IF x[2] = 0 \/ y[1] = 0 THEN NaN ELSE Zero)
    ELSE IF y[1] = 0 THEN <<Sign(x[1]), 0>>
    ELSE Rat(x[1] * y[2] * Sign(y[1]), x[2] * Abs(y[1]))
\* x > 0 and x < 0 as the device compares: false for nan.
RGt0(x) == x[1] > 0
RLt0(x) == x[1] < 0
IsNaN(x) == x = NaN
IsFinite(x) == x[2] # 0

\* ----------------------------------------------------------- matrices
Rows(m) == Len(m)
Cols(m) == IF Len(m) = 0 THEN 0 ELSE Len(m[1])

\* An array of n cells, and one of rows x cols cells, held cell by cell.
Vec(n, Cell(_)) == [r \in 1..n |-> Cell(r)] \o <<>>
Mat(rows, cols, Cell(_, _)) == Vec(rows, LAMBDA r : Vec(cols, LAMBDA c : Cell(r, c)))

\* cp.asarray(price_data, dtype=float32): the host matrix on the device.
AsArray(m) == Mat(Rows(m), Cols(m), LAMBDA r, c : FromInt(m[r][c]))

\* A device block of the given shape as the allocator hands it out: not
\* initialised, every cell holds what the block held before.
Alloc(rows, cols, stale) == Mat(rows, cols, LAMBDA r, c : stale)

\* cp.empty in place of cp.full: the block is returned as allocated.
Full_Uninitialised(buf, v) == buf
\* cp.full(shape, v) / cp.full_like(a, v): allocate, then write v everywhere.
Full(buf, v) == Mat(Rows(buf), Cols(buf), LAMBDA r, c : v)

\* m[:, lo:hi] for 0 <= lo: the slice is cut at the array's end.
SliceCols(m, lo, hi) ==
    LET n == Max(Min(hi, Cols(m)) - lo, 0)
    IN  Mat(Rows(m), n, LAMBDA r, c : m[r][lo + c])

\* m[:, i] = v for a per-row vector v and 0 <= i < Cols(m).
SetCol(m, i, v) == Vec(Rows(m), LAMBDA r : [m[r] EXCEPT ![i + 1] = v[r]])
\* m[:, i]
GetCol(m, i) == Vec(Rows(m), LAMBDA r : m[r][i + 1])

RECURSIVE SumSeq(_)
SumSeq(s) == IF Len(s) = 0 THEN Zero ELSE RAdd(s[1], SumSeq(Tail(s)))

\* cp.mean(m) without the axis: one mean over all rows, broadcast to each.
MeanAxis1_NoAxis(m) ==
    LET all == SumSeq(Vec(Rows(m), LAMBDA r : SumSeq(m[r])))
    IN  Vec(Rows(m), LAMBDA r : RDiv(all, FromInt(Rows(m) * Cols(m))))
\* cp.mean(m, axis=1): one mean per row; nan for a slice with no columns.
MeanAxis1(m) == Vec(Rows(m), LAMBDA r : RDiv(SumSeq(m[r]), FromInt(Cols(m))))

\* ------------------------------------------- values that depend on 1e-10
\* <<a, b, c, d>> is (a + b*e) / (c + d*e), e = 1e-10.  Coefficients stay far
\* below 1e10 in absolute value, so the sign of p + q*e is the sign of p, or
\* of q when p = 0, and two normal forms are equal exactly when the values are.
LexSign(p, q) == IF p # 0 THEN Sign(p) ELSE Sign(q)
GCD4(a, b, c, d) == GCD(GCD(Abs(a), Abs(b)), GCD(Abs(c), Abs(d)))
ExactDiv(x, g) == Sign(x) * (Abs(x) \div g)

EpsNorm(a, b, c, d) ==
    IF c = 0 /\ d = 0 THEN <<LexSign(a, b), 0, 0, 0>>
    ELSE IF a * d - b * c = 0
    THEN LET q == IF c # 0 THEN Rat(a, c) ELSE Rat(b, d)
         IN  <<q[1], 0, q[2], 0>>
    ELSE LET g == GCD4(a, b, c, d)
             s == LexSign(c, d)
         IN  <<s * ExactDiv(a, g), s * ExactDiv(b, g),
               s * ExactDiv(c, g), s * ExactDiv(d, g)>>

EpsNaN == <<0, 0, 0, 0>>
EpsOfInt(k) == <<k, 0, 1, 0>>
EpsIsFinite(x) == x[3] # 0 \/ x[4] # 0
\* x >= 0 and x <= k for a normal form x; false for nan.
EpsGeq0(x) == EpsIsFinite(x) /\ LexSign(x[1], x[2]) >= 0
EpsLeq(x, k) == EpsIsFinite(x) /\ LexSign(k * x[3] - x[1], k * x[4] - x[2]) >= 0

\* the epsilon left out: avg_gains / avg_losses
AddEpsilon_Dropped(r) == EpsNorm(r[1], 0, r[2], 0)
\* r + 1e-10 for a fraction r (line 58: avg_losses + 1e-10)
AddEpsilon(r) == EpsNorm(r[1], r[2], r[2], 0)
\* r / x for a fraction r
RatDivEps(r, x) == EpsNorm(r[1] * x[3], r[1] * x[4], r[2] * x[1], r[2] * x[2])
\* k + x, k / x and k - x for an integer k
IntAddEps(k, x) == EpsNorm(x[1] + k * x[3], x[2] + k * x[4], x[3], x[4])
IntDivEps(k, x) == EpsNorm(k * x[3], k * x[4], x[1], x[2])
IntSubEps(k, x) == EpsNorm(k * x[3] - x[1], k * x[4] - x[2], x[3], x[4])

\* ---------------------------------------------------------------- RSI
\* cp.diff(prices_gpu, axis=1)
Diff(m) ==
    Mat(Rows(m), Cols(m) - 1, LAMBDA r, c : RSub(m[r][c + 1], m[r][c]))
\* cp.where(price_diffs > 0, price_diffs, 0)
Gains(price_diffs) ==
    Mat(Rows(price_diffs), Cols(price_diffs), LAMBDA r, c :
        IF RGt0(price_diffs[r][c]) THEN price_diffs[r][c] ELSE Zero)
\* cp.where(price_diffs < 0, -price_diffs, 0)
Losses(price_diffs) ==
    Mat(Rows(price_diffs), Cols(price_diffs), LAMBDA r, c :
        IF RLt0(price_diffs[r][c]) THEN RNeg(price_diffs[r][c]) ELSE Zero)

\* gains[:, :period + 1]: one difference too many
SeedSlice_OneMore(m, period) == SliceCols(m, 0, period + 1)
\* gains[:, :period], the differences the seed averages
SeedSlice(m, period) == SliceCols(m, 0, period)

\* rs = avg_gains / (avg_losses + 1e-10);  100 - (100 / (1 + rs)), per row
RsiColumn(avg_gains, avg_losses) ==
    Vec(Len(avg_gains), LAMBDA r :
        LET rs == RatDivEps(avg_gains[r], AddEpsilon(avg_losses[r]))
        IN  IntSubEps(100, IntDivEps(100, IntAddEps(1, rs))))

\* alpha * x[:, i-1:i] + (1 - alpha) * avg, per row
Smooth(alpha, x, i, avg) ==
    Vec(Len(avg), LAMBDA r :
        RAdd(RMul(alpha, x[r][i]), RMul(RSub(One, alpha), avg[r])))

\* for i in range(period + 1, data_length): ...
RECURSIVE RsiLoop(_, _, _, _, _, _, _, _)
RsiLoop(i, data_length, alpha, gains, losses, avg_gains, avg_losses, rsi_values) ==
    IF i >= data_length THEN rsi_values
    ELSE LET g == Smooth(alpha, gains, i, avg_gains)
             l == Smooth(alpha, losses, i, avg_losses)
         IN  RsiLoop(i + 1, data_length, alpha, gains, losses, g, l,
                     SetCol(rsi_values, i, RsiColumn(g, l)))

\* The call's outcome: the exception raised, if any, and the arrays returned.
Returned(arrays) == [raised |-> "none", out |-> arrays]
Raised(e) == [raised |-> e, out |-> <<>>]

rsi_batch(data, period, stale) ==
    LET prices_gpu == AsArray(data)
        batch_size == Rows(prices_gpu)
        data_length == Cols(prices_gpu)
        price_diffs == Diff(prices_gpu)
        gains == Gains(price_diffs)
        losses == Losses(price_diffs)
        rsi_values == Full(Alloc(batch_size, data_length, EpsOfInt(stale)), EpsNaN)
    IN  IF data_length >= period
        THEN LET avg_gains == MeanAxis1(SeedSlice(gains, period))
                 avg_losses == MeanAxis1(SeedSlice(losses, period))
                 alpha == Rat(1, period)
             IN  \* rsi_values[:, period] = ... : column period must exist
                 IF period >= data_length THEN Raised("IndexError")
                 ELSE Returned(<<RsiLoop(period + 1, data_length, alpha, gains, losses,
                                         avg_gains, avg_losses,
                                         SetCol(rsi_values, period,
                                                RsiColumn(avg_gains, avg_losses)))>>)
        ELSE Returned(<<rsi_values>>)

\* ---------------------------------------------------------- Bollinger
\* <<m, k, v>> is m + k * sqrt(v); k = 0 and v = 0 when there is no root part.
SurdNorm(m, k, v) == IF k = Zero \/ v = Zero THEN <<m, Zero, Zero>> ELSE <<m, k, v>>
SurdOf(r) == <<r, Zero, Zero>>
SurdNaN == SurdOf(NaN)
SurdIsNaN(x) == IsNaN(x[1]) \/ IsNaN(x[2]) \/ IsNaN(x[3])
Sqrt(v) == IF IsFinite(v) THEN SurdNorm(Zero, One, v) ELSE SurdOf(v)
\* k * s, r + s and r - s for fractions k, r
SurdScale(k, s) == SurdNorm(RMul(k, s[1]), RMul(k, s[2]), s[3])
RatAddSurd(r, s) == SurdNorm(RAdd(r, s[1]), s[2], s[3])
RatSubSurd(r, s) == SurdNorm(RSub(r, s[1]), RNeg(s[2]), s[3])

\* cp.std(m, axis=1, ddof=1): the sample deviation, divided by n - 1
Std_Sample(m) ==
    LET mu == MeanAxis1(m)
        dev2 == Mat(Rows(m), Cols(m), LAMBDA r, c :
                    RMul(RSub(m[r][c], mu[r]), RSub(m[r][c], mu[r])))
    IN  Vec(Rows(m), LAMBDA r : Sqrt(RDiv(SumSeq(dev2[r]), FromInt(Cols(m) - 1))))
\* cp.std(m, axis=1): sqrt(mean(abs(x - mean(x)) ** 2)) per row
Std(m) ==
    LET mu == MeanAxis1(m)
        dev2 == Mat(Rows(m), Cols(m), LAMBDA r, c :
                    RMul(RSub(m[r][c], mu[r]), RSub(m[r][c], mu[r])))
        var == MeanAxis1(dev2)
    IN  Vec(Rows(m), LAMBDA r : Sqrt(var[r]))

\* prices_gpu[:, i-period+1:i+1]
Window(prices_gpu, i, period) == SliceCols(prices_gpu, i - period + 1, i + 1)
\* range(period, data_length): the first full window is skipped
FirstWindowEnd_Late(period) == period
\* range(period - 1, data_length) starts here
FirstWindowEnd(period) == period - 1

\* for i in range(period - 1, data_length): ...   bands = <<upper, middle, lower>>
RECURSIVE BollingerLoop(_, _, _, _, _, _)
BollingerLoop(i, data_length, prices_gpu, period, std_multiplier, bands) ==
    IF i >= data_length THEN bands
    ELSE LET window_data == Window(prices_gpu, i, period)
             ma == MeanAxis1(window_data)
             std == Std(window_data)
             n == Len(ma)
             width == Vec(n, LAMBDA r : SurdScale(FromInt(std_multiplier), std[r]))
         IN  BollingerLoop(i + 1, data_length, prices_gpu, period, std_multiplier,
                 << SetCol(bands[1], i, Vec(n, LAMBDA r : RatAddSurd(ma[r], width[r]))),
                    SetCol(bands[2], i, Vec(n, LAMBDA r : SurdOf(ma[r]))),
                    SetCol(bands[3], i, Vec(n, LAMBDA r : RatSubSurd(ma[r], width[r]))) >>)

bollinger_bands_batch(data, period, std_multiplier, stale) ==
    LET prices_gpu == AsArray(data)
        batch_size == Rows(prices_gpu)
        data_length == Cols(prices_gpu)
        upper_band == Full(Alloc(batch_size, data_length, SurdOf(FromInt(stale))), SurdNaN)
        middle_band == Full(Alloc(batch_size, data_length, SurdOf(FromInt(stale))), SurdNaN)
        lower_band == Full(Alloc(batch_size, data_length, SurdOf(FromInt(stale))), SurdNaN)
    IN  Returned(BollingerLoop(FirstWindowEnd(period), data_length, prices_gpu, period,
                               std_multiplier, <<upper_band, middle_band, lower_band>>))

\* ------------------------------------------------------------ EMA, MACD
\* alpha = 2.0 / (period + 1)
Alpha(period) == Rat(2, period + 1)
\* the seed left out: column 0 keeps what cp.full_like wrote
EmaSeed_Skipped(ema, data) == ema
\* ema[:, 0] = data[:, 0]
EmaSeed(ema, data) == SetCol(ema, 0, GetCol(data, 0))
\* the weights exchanged: alpha * ema[:, i-1] + (1 - alpha) * data[:, i]
EmaStep_Swapped(alpha, x, prev) == RAdd(RMul(alpha, prev), RMul(RSub(One, alpha), x))
\* alpha * data[:, i] + (1 - alpha) * ema[:, i-1]
EmaStep(alpha, x, prev) == RAdd(RMul(alpha, x), RMul(RSub(One, alpha), prev))

\* for i in range(1, data.shape[1]): ...
RECURSIVE EmaLoop(_, _, _, _)
EmaLoop(i, data, alpha, ema) ==
    IF i >= Cols(data) THEN ema
    ELSE EmaLoop(i + 1, data, alpha,
                 SetCol(ema, i, Vec(Rows(data), LAMBDA r :
                                    EmaStep(alpha, data[r][i + 1], ema[r][i]))))

\* _ema_gpu(data, period) for a device array data with at least one column
ema_gpu(data, period, stale) ==
    LET alpha == Alpha(period)
        ema == Full(Alloc(Rows(data), Cols(data), FromInt(stale)), NaN)
    IN  EmaLoop(1, data, alpha, EmaSeed(ema, data))

\* a - b, elementwise
MatSub(a, b) == Mat(Rows(a), Cols(a), LAMBDA r, c : RSub(a[r][c], b[r][c]))

macd_batch(data, fast_period, slow_period, signal_period, stale) ==
    LET prices_gpu == AsArray(data)
        fast_ema == ema_gpu(prices_gpu, fast_period, stale)
        slow_ema == ema_gpu(prices_gpu, slow_period, stale)
        macd_line == MatSub(fast_ema, slow_ema)
        signal_line == ema_gpu(macd_line, signal_period, stale)
        histogram == MatSub(macd_line, signal_line)
    IN  Returned(<<macd_line, signal_line, histogram>>)

\* ------------------------------------------------------------ the engine
VARIABLES
    price_data,      \* the caller's price matrix (immutable input)
    pc,              \* "idle", or "running" while a kernel call is in flight
    op,              \* the operation called last (or in flight)
    args,            \* its numeric arguments
    raised,          \* the exception the last call raised, or "none"
    result,          \* the arrays the last call returned, in order
    mempool,         \* self.mempool: sizes of the device blocks it caches
    pinned_mempool   \* self.pinned_mempool: sizes of the pinned host blocks

vars == <<price_data, pc, op, args, raised, result, mempool, pinned_mempool>>

S == Rows(price_data)
T == Cols(price_data)

\* The calls a caller makes: a kernel and its numeric arguments.
Calls ==
    {<<"rsi_batch", <<period>>>> : period \in Periods}
    \cup {<<"bollinger_bands_batch", pm>> : pm \in Periods \X Multipliers}
    \cup {<<"macd_batch", periods>> : periods \in MacdPeriods}
    \cup {<<"_ema_gpu", <<period>>>> : period \in Periods}

\* What a new block of `size` cells holds before it is written: the data of
\* the array freed into it when the pool caches such a block (1), and what
\* the driver hands out otherwise (0).
Stale(pool, size) == IF size \in pool THEN 1 ELSE 0

\* One kernel applied to a host matrix.
Outcome(name, a, data, stale) ==
    CASE name = "rsi_batch" -> rsi_batch(data, a[1], stale)
      [] name = "bollinger_bands_batch" ->
             bollinger_bands_batch(data, a[1], a[2], stale)
      [] name = "macd_batch" -> macd_batch(data, a[1], a[2], a[3], stale)
      [] name = "_ema_gpu" -> Returned(<<ema_gpu(AsArray(data), a[1], stale)>>)

\* GPUIndicators(): the process's default pools, nothing cached yet.
Init ==
    /\ price_data \in Matrices
    /\ pc = "idle"
    /\ op = "init"
    /\ args = <<>>
    /\ raised = "none"
    /\ result = <<>>
    /\ mempool = {}
    /\ pinned_mempool = {}

\* The caller enters a kernel with its arguments; the call blocks the caller
\* until it returns.
Enter ==
    /\ pc = "idle"
    /\ \E c \in Calls : op' = c[1] /\ args' = c[2]
    /\ pc' = "running"
    /\ raised' = "none"
    /\ result' = <<>>
    /\ UNCHANGED <<price_data, mempool, pinned_mempool>>

\* The call in flight runs to its end.  Its device arrays are freed and the
\* pool keeps their blocks; the copies between host and device were staged
\* through pinned blocks, which the pinned pool keeps likewise.
Leave(res) ==
    /\ pc' = "idle"
    /\ raised' = res.raised
    /\ result' = res.out
    /\ mempool' = mempool \cup {S * T}
    /\ pinned_mempool' = pinned_mempool \cup {S * T}
    /\ UNCHANGED <<price_data, op, args>>

RsiBatch ==
    /\ pc = "running" /\ op = "rsi_batch"
    /\ Leave(rsi_batch(price_data, args[1], Stale(mempool, S * T)))

BollingerBandsBatch ==
    /\ pc = "running" /\ op = "bollinger_bands_batch"
    /\ Leave(bollinger_bands_batch(price_data, args[1], args[2], Stale(mempool, S * T)))

MacdBatch ==
    /\ pc = "running" /\ op = "macd_batch"
    /\ Leave(macd_batch(price_data, args[1], args[2], args[3], Stale(mempool, S * T)))

\* _ema_gpu called on the device copy of the price matrix
EmaGpu ==
    /\ pc = "running" /\ op = "_ema_gpu"
    /\ Leave(Returned(<<ema_gpu(AsArray(price_data), args[1], Stale(mempool, S * T))>>))

\* free_all_blocks() on both pools: the cached blocks go back to the system;
\* blocks that live arrays use are not in the cache and are not touched.
clear_memory ==
    /\ mempool' = {}
    /\ pinned_mempool' = {}
    /\ UNCHANGED <<price_data, pc, op, args, raised, result>>

Next ==
    \/ Enter
    \/ RsiBatch
    \/ BollingerBandsBatch
    \/ MacdBatch
    \/ EmaGpu
    \/ clear_memory

Spec == Init /\ [][Next]_vars

\* ============================================================ properties
\* The last call was `name` and it has ended (returned or raised).
Ended(name) == pc = "idle" /\ op = name
AnyEnded == pc = "idle" /\ op # "init"
HasShape(m, rows, cols) == Len(m) = rows /\ \A r \in 1..rows : Len(m[r]) = cols
IsConstant(m) == \A r \in 1..Rows(m), c \in 1..Cols(m) : m[r][c] = m[1][1]

\* C1: rsi_batch on a history with T < period + 1 columns (T = period
\* included) returns normally, and every cell of its S x T output is the
\* not-a-number sentinel.
C1_ShortHistoryAllSentinel ==
    (Ended("rsi_batch") /\ T < args[1] + 1) =>
        /\ raised = "none"
        /\ Len(result) = 1
        /\ HasShape(result[1], S, T)
        /\ \A r \in 1..S, c \in 1..T : result[1][r][c] = EpsNaN

\* C2: for every period p >= 1 and every price matrix, rsi_batch's output is
\* the sentinel at every column index < p and a defined value in [0, 100] at
\* every column index p..T-1.
C2_RsiWarmupAndRange ==
    Ended("rsi_batch") =>
        /\ raised = "none"
        /\ Len(result) = 1
        /\ HasShape(result[1], S, T)
        /\ \A r \in 1..S, c \in 0..(T - 1) :
              IF c < args[1]
              THEN result[1][r][c + 1] = EpsNaN
              ELSE EpsGeq0(result[1][r][c + 1]) /\ EpsLeq(result[1][r][c + 1], 100)

\* The same for the calls that return: the warm-up columns and the range
\* [0, 100] hold whenever rsi_batch does not raise.
RsiWarmupAndRangeWhenReturned ==
    (Ended("rsi_batch") /\ raised = "none") =>
        /\ T # args[1]
        /\ HasShape(result[1], S, T)
        /\ \A r \in 1..S, c \in 0..(T - 1) :
              IF c < args[1]
              THEN result[1][r][c + 1] = EpsNaN
              ELSE EpsGeq0(result[1][r][c + 1]) /\ EpsLeq(result[1][r][c + 1], 100)

\* C3, as stated: for a constant price series with T >= period + 1,
\* rsi_batch yields exactly 50 at every column index >= period.
C3_ConstantSeriesYields50 ==
    (Ended("rsi_batch") /\ IsConstant(price_data) /\ T >= args[1] + 1) =>
        /\ raised = "none"
        /\ \A r \in 1..S, c \in args[1]..(T - 1) : result[1][r][c + 1] = EpsOfInt(50)

\* C3, amended: for a constant price series with T >= period + 1, rsi_batch
\* yields exactly 0 at every column index >= period (gains = losses = 0, so
\* rs = 0 / (0 + 1e-10) = 0 and 100 - 100 / (1 + 0) = 0).
C3_ConstantSeriesYields0 ==
    (Ended("rsi_batch") /\ IsConstant(price_data) /\ T >= args[1] + 1) =>
        /\ raised = "none"
        /\ \A r \in 1..S, c \in args[1]..(T - 1) : result[1][r][c + 1] = EpsOfInt(0)

C3_Witness ==
    /\ Ended("rsi_batch") /\ IsConstant(price_data)
    /\ S = 2 /\ T >= args[1] + 2 /\ raised = "none"

\* C4: bollinger_bands_batch raises nothing, leaves columns 0..period-2 of
\* upper, middle and lower as the sentinel and writes a defined value to every
\* column period-1..T-1; with T < period all three outputs are all sentinel.
C4_BollingerWarmup ==
    Ended("bollinger_bands_batch") =>
        /\ raised = "none"
        /\ Len(result) = 3
        /\ \A k \in 1..3 :
              /\ HasShape(result[k], S, T)
              /\ \A r \in 1..S, c \in 0..(T - 1) :
                    IF c < args[1] - 1
                    THEN result[k][r][c + 1] = SurdNaN
                    ELSE /\ IsFinite(result[k][r][c + 1][1])
                         /\ IsFinite(result[k][r][c + 1][2])
                         /\ IsFinite(result[k][r][c + 1][3])

C4_Witness ==
    /\ Ended("bollinger_bands_batch") /\ args[1] >= 2 /\ T > args[1]
    /\ result[2][1][1] = SurdNaN /\ result[2][1][T] # SurdNaN

\* Sums over row[lo..hi] (1-based), for the mean and variance of a window.
RECURSIVE SumOver(_, _, _)
SumOver(row, lo, hi) == IF lo > hi THEN 0 ELSE row[lo] + SumOver(row, lo + 1, hi)
RECURSIVE SumSqOver(_, _, _)
SumSqOver(row, lo, hi) ==
    IF lo > hi THEN 0 ELSE row[lo] * row[lo] + SumSqOver(row, lo + 1, hi)

\* C5: for every window w, row r and column i in w-1..T-1, middle[r,i] is the
\* arithmetic mean of prices[r, i-w+1..i], and upper - middle = middle - lower
\* = std_multiplier * (population standard deviation of that window), the
\* deviation being sqrt(E[x^2] - E[x]^2).
C5_BollingerBands ==
    Ended("bollinger_bands_batch") =>
        \A r \in 1..S, i \in (args[1] - 1)..(T - 1) :
            LET w == args[1]
                sum == SumOver(price_data[r], i - w + 2, i + 1)
                sumsq == SumSqOver(price_data[r], i - w + 2, i + 1)
                mean == Rat(sum, w)
                var == Rat(w * sumsq - sum * sum, w * w)
            IN  /\ result[2][r][i + 1] = SurdOf(mean)
                /\ result[1][r][i + 1] = SurdNorm(mean, FromInt(args[2]), var)
                /\ result[3][r][i + 1] = SurdNorm(mean, FromInt(-args[2]), var)

C5_Witness ==
    /\ Ended("bollinger_bands_batch") /\ args[1] >= 2 /\ T >= args[1]
    /\ result[1][1][T] # result[2][1][T]
    /\ result[2][1][T] # SurdNaN

\* C6: _ema_gpu with period = 1 is the identity: ema[r,i] = data[r,i] for
\* every row and column.
C6_EmaPeriodOneIsIdentity ==
    (Ended("_ema_gpu") /\ args[1] = 1) => result = <<AsArray(price_data)>>

C6_Witness ==
    /\ Ended("_ema_gpu") /\ args[1] = 1 /\ T >= 3
    /\ price_data[1][1] # price_data[1][2] /\ price_data[1][2] # price_data[1][3]

\* C7: no cell of macd_batch's three outputs (macd_line, signal_line,
\* histogram) is the sentinel, whatever the periods: there is no warm-up.
C7_MacdHasNoSentinel ==
    Ended("macd_batch") =>
        /\ raised = "none"
        /\ Len(result) = 3
        /\ \A k \in 1..3 :
              /\ HasShape(result[k], S, T)
              /\ \A r \in 1..S, c \in 1..T : IsFinite(result[k][r][c])

C7_Witness == Ended("macd_batch") /\ T >= 3 /\ ~IsConstant(price_data)

\* The S x T matrix that keeps columns 0..i of row r and holds the lowest
\* price everywhere else.
KeepHistory(r, i) ==
    LET low == CHOOSE v \in Prices : \A w \in Prices : v <= w
    IN  Mat(S, T, LAMBDA rr, c : IF rr = r /\ c <= i + 1 THEN price_data[r][c] ELSE low)

\* C8: no lookahead.  For every kernel, the outcome at cell [r,i] is the one
\* the same call gives on the matrix that keeps only columns 0..i of row r.
\* Two matrices of one shape that agree on columns 0..i of row r keep the same
\* matrix, and every matrix is a price_data of some behaviour, so they produce
\* the same value (or both the sentinel, or both raise) at [r,i].
C8_NoLookahead ==
    AnyEnded =>
        \A r \in 1..S, i \in 0..(T - 1) :
            LET alt == Outcome(op, args, KeepHistory(r, i), Stale(mempool, S * T))
            IN  /\ alt.raised = raised
                /\ Len(alt.out) = Len(result)
                /\ \A k \in 1..Len(result) : alt.out[k][r][i + 1] = result[k][r][i + 1]

C8_Witness ==
    /\ Ended("rsi_batch") /\ raised = "none" /\ T >= args[1] + 2
    /\ price_data # KeepHistory(1, args[1])
    /\ EpsIsFinite(result[1][1][args[1] + 1])

\* C9: a kernel call returns what the same call returns on a newly built
\* engine, whatever calls and clear_memory calls came before it, so two calls
\* with identical input and parameters return identical outputs; and
\* clear_memory can be called in every state and changes only the two pools.
C9_CallsAreRepeatable ==
    /\ [](AnyEnded =>
            LET fresh == Outcome(op, args, price_data, Stale({}, S * T))
            IN  raised = fresh.raised /\ result = fresh.out)
    /\ [](ENABLED clear_memory)
    /\ [][clear_memory => UNCHANGED <<price_data, pc, op, args, raised, result>>]_vars

C9_Witness ==
    /\ Ended("rsi_batch") /\ raised = "none" /\ T >= args[1] + 1
    /\ mempool = {} /\ pinned_mempool = {}

\* C10: every output matrix has the input's shape S x T, and output row r is
\* what the same call returns for the one-row matrix made of input row r: a
\* function of that row alone, so permuting or changing the other rows
\* permutes the output rows the same way and leaves row r's values unchanged.
C10_RowsIndependent ==
    AnyEnded =>
        /\ \A k \in 1..Len(result) : HasShape(result[k], S, T)
        /\ \A r \in 1..S :
              LET alone == Outcome(op, args, <<price_data[r]>>, Stale(mempool, S * T))
              IN  /\ alone.raised = raised
                  /\ Len(alone.out) = Len(result)
                  /\ \A k \in 1..Len(result) : alone.out[k][1] = result[k][r]

C10_Witness ==
    /\ Ended("bollinger_bands_batch") /\ S = 2 /\ T >= args[1] /\ args[1] >= 2
    /\ result[1][1] # result[1][2]

====
